---- MODULE Spec2Model ----
(***************************************************************************)
(* The CodeChecker command-line client, libcodechecker/libhandlers/cmd.py: *)
(* the argument parsers it registers, its custom handlers, and the query   *)
(* model (filter criteria, pattern matching, run diff) the parsed          *)
(* arguments are handed to.                                                *)
(*                                                                         *)
(* cmd.py only registers and validates arguments; the client modules it    *)
(* calls (cmd_line_client, product_client) are not part of the examined    *)
(* source.  What they do is modelled from the specification and marked so  *)
(* where it is defined.                                                    *)
(*                                                                         *)
(* Several specifications share the module, one per command family:        *)
(*   SpecDiff    'CodeChecker cmd diff': parse, __handle, the diff         *)
(*   SpecFilter  the filter arguments of 'results', 'diff' and 'sum'       *)
(*   SpecPattern the wildcard patterns of run names and filter fields      *)
(*   SpecRun     the run name expression of 'results'                      *)
(*   SpecTime    valid_time, the type of the time arguments of 'del'       *)
(*   SpecDelete  'CodeChecker cmd del': parse, the selection of the runs   *)
(*   SpecQuery   the finding sets of the two endpoints of a diff           *)
(*   SpecAdd     'CodeChecker cmd products add': parse, __handle           *)
(*   SpecLegacy  the deprecated --filter string of 'results', 'diff', 'sum' *)
(*   SpecCommand one invocation of 'diff', 'del' or 'products add'         *)
(* A command line is abstracted to the set of option actions it names      *)
(* (argparse's seen_non_default_actions) and the values they carry.        *)
(***************************************************************************)
EXTENDS Integers, Sequences, FiniteSets, TLC

\* Report hashes are 1..MaxHash.
MaxHash == 3

\* A pattern has at most MaxPatLen characters, a candidate string at most
\* MaxStrLen.
MaxPatLen == 3

MaxStrLen == 3

\* A command line names at most MaxGiven filter options.
MaxGiven == 1

\* A run name expression has at most MaxExprLen characters; the server
\* knows at most MaxKnown runs.
MaxExprLen == 4

MaxKnown == 2

\* A time argument has at most MaxParts ':'-separated components.
MaxParts == 7

\* A 'del' command line names at most MaxVariants of the five options.
MaxVariants == 2

\* The report hashes of the stored runs are 1..MaxStoredHash.
MaxStoredHash == 1

\* A 'products add' command line names at most MaxPgGiven option strings of
\* the PostgreSQL arguments.
MaxPgGiven == 2

\* A --filter string has at most MaxFilterLen characters.
MaxFilterLen == 7

VARIABLES
    \* ---- 'diff' ----
    dpc,        \* "argv" | "parsed" | "rejected" | "fetching" | "done"
    dargv,      \* the command line: [seen, output, export]
    dargs,      \* the argparse Namespace: attribute name -> value
    derr,       \* the parser.error message kind, "none" when there is none
    dcalls,     \* the functions called so far for this request
    baseDone,   \* the base endpoint's findings have been fetched
    newDone,    \* the new endpoint's findings have been fetched
    fetched,    \* the endpoints fetched so far, in the order of completion
    base,       \* the fetched base finding set
    new,        \* the fetched new finding set
    result,     \* the findings the diff reports
    \* ---- patterns ----
    ppc,        \* "input" | "compiled" | "invalid" | "matched"
    site,       \* the argument the pattern was given to
    pattern,    \* the pattern, a sequence of characters
    matcher,    \* the compiled pattern
    matchedSet, \* the candidate strings the matcher accepts
    \* ---- filter arguments ----
    fpc,        \* "argv" | "parsed" | "listed"
    fcmd,       \* "results" | "diff" | "sum"
    fargv,      \* the filter options given: dest -> the values after it
    fargs,      \* the Namespace's filter attributes: dest -> values
    listed,     \* the findings the criteria select
    \* ---- run name expressions ----
    rpc,        \* "input" | "resolved" | "no_match" | "queried"
    expr,       \* the run name expression, a sequence of characters
    known,      \* the run names the server knows, in its order
    resolved,   \* the resolved run names, a sequence
    \* ---- valid_time ----
    tpc,        \* "input" | "called"
    tinput,     \* the argument string, as its ':'-separated components
    tresult,    \* what the call produced: [outcome, fields]
    \* ---- 'del' ----
    xpc,        \* "argv" | "parsed" | "rejected" | "crashed" | "selected" | "unknown_run"
    xargv,      \* the command line: [seen, names, run, time]
    xargs,      \* the argparse Namespace: attribute name -> value
    xerr,       \* the error kind, "none" when there is none
    catalog,    \* the runs of the server: name -> store timestamp
    selected,   \* the runs selected for removal
    \* ---- the endpoints of a diff ----
    qpc,        \* "request" | "fetched" | "done"
    qreq,       \* the request: [argv, mode, base, new]
    store,      \* the server: run name -> the findings of the run
    qbase,      \* the finding set of the base endpoint
    qnew,       \* the finding set of the new endpoint
    qresult,    \* the findings the diff reports
    \* ---- 'products add' ----
    apc,        \* "argv" | "parsed" | "rejected" | "added"
    aargv,      \* the command line: [pg, attached, value, sqlite, postgresql, description]
    aargs,      \* the argparse Namespace: attribute name -> value
    aerr,       \* the error: [kind, option], kind "none" when there is none
    acalls,     \* the functions called so far for this request
    \* ---- the deprecated --filter string ----
    lpc,        \* "argv" | "parsed" | "rejected" | "criteria"
    lcmd,       \* "results" | "diff" | "sum"
    lfilter,    \* the string after --filter, a sequence of characters
    largs,      \* the Namespace: "filter" and the filter attributes
    lcriteria   \* the criteria: dest -> values

diffVars ==
    <<dpc, dargv, dargs, derr, dcalls, baseDone, newDone, fetched, base, new, result>>

patVars == <<ppc, site, pattern, matcher, matchedSet>>

filterVars == <<fpc, fcmd, fargv, fargs, listed>>

runVars == <<rpc, expr, known, resolved>>

timeVars == <<tpc, tinput, tresult>>

delVars == <<xpc, xargv, xargs, xerr, catalog, selected>>

queryVars == <<qpc, qreq, store, qbase, qnew, qresult>>

addVars == <<apc, aargv, aargs, aerr, acalls>>

legacyVars == <<lpc, lcmd, lfilter, largs, lcriteria>>

vars ==
    <<diffVars, patVars, filterVars, runVars, timeVars, delVars, queryVars, addVars,
      legacyVars>>

\* What the actions of one family leave alone: the other families.
notDiffVars == <<patVars, filterVars, runVars, timeVars, delVars, queryVars, addVars,
      legacyVars>>

notPatVars == <<diffVars, filterVars, runVars, timeVars, delVars, queryVars, addVars,
      legacyVars>>

notFilterVars == <<diffVars, patVars, runVars, timeVars, delVars, queryVars, addVars,
      legacyVars>>

notRunVars == <<diffVars, patVars, filterVars, timeVars, delVars, queryVars, addVars,
      legacyVars>>

notTimeVars == <<diffVars, patVars, filterVars, runVars, delVars, queryVars, addVars,
      legacyVars>>

notDelVars == <<diffVars, patVars, filterVars, runVars, timeVars, queryVars, addVars,
      legacyVars>>

notQueryVars == <<diffVars, patVars, filterVars, runVars, timeVars, delVars, addVars,
      legacyVars>>

notLegacyVars ==
    <<diffVars, patVars, filterVars, runVars, timeVars, delVars, queryVars, addVars>>

notAddVars == <<diffVars, patVars, filterVars, runVars, timeVars, delVars, queryVars,
      legacyVars>>

(***************************************************************************)
(* Findings.  A finding is identified by its report_hash; the              *)
(* detection_status stands for everything that may differ between the two  *)
(* endpoints of a diff.                                                    *)
(***************************************************************************)
Hashes == 1..MaxHash

DetectionStatuses == {"new", "unresolved"}

Finding == [report_hash : Hashes, detection_status : DetectionStatuses]

\* The finding sets an endpoint can hold: one finding per report_hash.
FindingSets ==
    {S \in SUBSET Finding :
        \A f \in S, g \in S : f.report_hash = g.report_hash => f = g}

HashesOf(S) == {f.report_hash : f \in S}

(***************************************************************************)
(* Patterns.  Strings are sequences of one-character strings.              *)
(***************************************************************************)
Chars == {"a", "A", "."}

Star == "*"

RECURSIVE SeqsUpTo(_, _)
SeqsUpTo(S, n) ==
    IF n = 0 THEN {<<>>}
    ELSE LET shorter == SeqsUpTo(S, n - 1)
         IN  shorter \cup {<<c>> \o t : c \in S, t \in {u \in shorter : Len(u) = n - 1}}

Patterns == SeqsUpTo(Chars \cup {Star}, MaxPatLen)

Candidates == SeqsUpTo(Chars, MaxStrLen)

\* The arguments that take patterns.
PatternSites ==
    {"results.name", "diff.basename", "diff.newname",
     "file_path", "checker_name", "checker_msg",
     "sum.names", "history.names"}

\* A variant of PatternSyntax: every argument read as a regular expression.
PatternSyntaxAllRegex(s) == "regex"

\* What the argument's help text says a pattern is: a string with '*'
\* quantifiers "which matches any number of characters (zero or more)", or
\* "a Python regex expression" (sum -n, history -n).
PatternSyntax(s) ==
    IF s \in {"sum.names", "history.names"} THEN "regex" ELSE "star"

\* PatternMatcher.compile for a '*' pattern: the literal segments between
\* the stars, in order.
RECURSIVE Segments(_)
Segments(p) ==
    IF p = <<>> THEN << <<>> >>
    ELSE LET r == Segments(Tail(p))
         IN  IF Head(p) = Star
             THEN << <<>> >> \o r
             ELSE << <<Head(p)>> \o r[1] >> \o Tail(r)

\* Matcher.matches for a '*' pattern: the first segment starts the
\* candidate, every further segment follows after any gap, the last segment
\* ends the candidate.
RECURSIVE SegmentsMatch(_, _)
SegmentsMatch(segs, s) ==
    LET h == segs[1]
    IN  /\ Len(s) >= Len(h)
        /\ SubSeq(s, 1, Len(h)) = h
        /\ IF Len(segs) = 1 THEN Len(s) = Len(h)
           ELSE \E k \in Len(h)..Len(s) :
                   SegmentsMatch(Tail(segs), SubSeq(s, k + 1, Len(s)))

\* A run name read as the help of sum -n and history -n words it, "a Python
\* regex expression": over these characters '.' is any character and '*'
\* repeats the element before it; re.compile rejects a '*' with nothing to
\* repeat and a repeated '*'.
RegexValid(p) ==
    /\ (p # <<>> => p[1] # Star)
    /\ \A i \in 1..(Len(p) - 1) : ~(p[i] = Star /\ p[i + 1] = Star)

RegexElem(e, c) == e = "." \/ e = c

\* The expression has to match the whole name, as a '*' pattern has to.
RECURSIVE RegexMatch(_, _)
RegexMatch(p, s) ==
    IF p = <<>> THEN s = <<>>
    ELSE IF Len(p) >= 2 /\ p[2] = Star
    THEN \E k \in 0..Len(s) :
            /\ \A i \in 1..k : RegexElem(p[1], s[i])
            /\ RegexMatch(SubSeq(p, 3, Len(p)), SubSeq(s, k + 1, Len(s)))
    ELSE /\ s # <<>>
         /\ RegexElem(p[1], s[1])
         /\ RegexMatch(Tail(p), Tail(s))

\* compile(pattern): the matching representation, or the pattern is invalid.
CompileOk(syntax, p) == syntax = "star" \/ RegexValid(p)

Compile(syntax, p) ==
    [syntax |-> syntax,
     segs |-> IF syntax = "star" THEN Segments(p) ELSE <<>>,
     prog |-> IF syntax = "star" THEN <<>> ELSE p]

MatcherMatches(m, s) ==
    IF m.syntax = "star" THEN SegmentsMatch(m.segs, s) ELSE RegexMatch(m.prog, s)

NoMatcher == [syntax |-> "none", segs |-> <<>>, prog |-> <<>>]

PatInit ==
    /\ ppc = "input"
    /\ site \in PatternSites
    /\ pattern \in Patterns
    /\ matcher = NoMatcher
    /\ matchedSet = {}

PatIdle ==
    /\ ppc = "idle"
    /\ site = "none"
    /\ pattern = <<>>
    /\ matcher = NoMatcher
    /\ matchedSet = {}

\* The pattern given to an argument is compiled.
PatCompile ==
    /\ ppc = "input"
    /\ IF CompileOk(PatternSyntax(site), pattern)
       THEN ppc' = "compiled" /\ matcher' = Compile(PatternSyntax(site), pattern)
       ELSE ppc' = "invalid" /\ matcher' = matcher
    /\ UNCHANGED <<site, pattern, matchedSet, notPatVars>>

\* The compiled pattern is applied to the candidate strings.
PatMatch ==
    /\ ppc = "compiled"
    /\ matchedSet' = {s \in Candidates : MatcherMatches(matcher, s)}
    /\ ppc' = "matched"
    /\ UNCHANGED <<site, pattern, matcher, notPatVars>>

PatNext == PatCompile \/ PatMatch

(***************************************************************************)
(* Filter arguments: __add_filtering_arguments, and the criteria they      *)
(* build.  Values are named by strings; Text gives the characters of the   *)
(* ones that are patterns or are matched by patterns.                      *)
(***************************************************************************)
\* dest of the filter options, in the order they are added.
FieldOrder ==
    <<"report_hash", "review_status", "detection_status", "severity", "tag",
      "file_path", "checker_name", "checker_msg", "component">>

FilterFields == {FieldOrder[i] : i \in 1..Len(FieldOrder)}

\* A variant of PatternFields: --checker-msg compared for equality.
PatternFieldsWithoutMsg == {"file_path", "checker_name"}

\* The fields whose help text promises '*' quantifiers.
PatternFields == {"file_path", "checker_name", "checker_msg"}

\* The fields a finding holds a set of values for.
SetFields == {"tag", "component"}

Text(str) ==
    CASE str = "a*" -> <<"a", Star>>
      [] str = "*." -> <<Star, ".">>
      [] str = "*" -> <<Star>>
      [] str = "A" -> <<"A">>
      [] str = "a" -> <<"a">>
      [] str = "." -> <<".">>
      [] str = "aA" -> <<"a", "A">>
      [] str = "a." -> <<"a", ".">>

\* The values an option can be followed by.
CriteriaValues(fld) ==
    CASE fld = "report_hash" -> {"h1", "h2"}
      [] fld = "review_status" -> {"unreviewed", "confirmed", "false_positive"}
      [] fld = "detection_status" -> {"new", "reopened", "unresolved", "resolved"}
      [] fld = "severity" -> {"high", "low"}
      [] fld = "tag" -> {"v1", "v2"}
      [] fld = "file_path" -> {"a*", "A"}
      [] fld = "checker_name" -> {"*.", "a"}
      [] fld = "checker_msg" -> {"*", "."}
      [] fld = "component" -> {"core", "ui"}

\* The findings the server holds.
FilterFindings ==
    [report_hash : {"h1", "h2"},
     review_status : {"unreviewed", "false_positive"},
     detection_status : {"new", "unresolved", "resolved"},
     severity : {"high", "low"},
     tag : {{}, {"v1"}},
     file_path : {"aA", "A"},
     checker_name : {"a.", "a"},
     checker_msg : {".", "a"},
     component : {{"core"}, {"core", "ui"}}]

FilterCommands == {"results", "diff", "sum"}

NoValues == [k \in {} |-> {}]

DEFAULT_FILTER_VALUES ==
    [review_status |-> {"unreviewed", "confirmed"},
     detection_status |-> {"new", "reopened", "unresolved"}]

\* The defaults each command passes to __add_filtering_arguments.
FilterDefaults(cmd) ==
    CASE cmd = "results" -> DEFAULT_FILTER_VALUES
      [] cmd = "diff" -> DEFAULT_FILTER_VALUES
      [] cmd = "sum" -> NoValues

\* init_default(dest) is argparse.SUPPRESS unless defaults holds dest;
\* --component is registered with argparse.SUPPRESS whatever defaults holds.
HasDefault(cmd, fld) ==
    fld # "component" /\ fld \in DOMAIN FilterDefaults(cmd)

\* A variant of FilterNamespace: an option followed by no value counts as
\* not given (what nargs='*' does for a positional argument).
FilterNamespaceEmptyAsNotGiven(cmd, a) ==
    LET given == {fld \in DOMAIN a : a[fld] # {}}
    IN  [fld \in given \cup {d \in FilterFields : HasDefault(cmd, d)} |->
            IF fld \in given THEN a[fld] ELSE FilterDefaults(cmd)[fld]]

\* The Namespace's filter attributes.  nargs='*' of an option stores the
\* list of the values after it, the empty list when there are none; an
\* option not given leaves its default, or no attribute under SUPPRESS.
FilterNamespace(cmd, a) ==
    [fld \in DOMAIN a \cup {d \in FilterFields : HasDefault(cmd, d)} |->
        IF fld \in DOMAIN a THEN a[fld] ELSE FilterDefaults(cmd)[fld]]

\* The command lines: at most MaxGiven filter options, each followed by any
\* of its values.
RECURSIVE ArgvsOn(_)
ArgvsOn(D) ==
    IF D = {} THEN {NoValues}
    ELSE LET d == CHOOSE x \in D : TRUE
         IN  {(d :> vs) @@ a : a \in ArgvsOn(D \ {d}), vs \in SUBSET CriteriaValues(d)}

FilterArgvs ==
    UNION {ArgvsOn(D) : D \in {E \in SUBSET FilterFields : Cardinality(E) <= MaxGiven}}

\* One listed value against a finding's attribute.
ValueMatches(fld, v, f) ==
    IF fld \in PatternFields
    THEN MatcherMatches(Compile(PatternSyntax(fld), Text(v)), Text(f[fld]))
    ELSE IF fld \in SetFields THEN v \in f[fld]
    ELSE v = f[fld]

\* FilterCriteria.matches: every present field, taken in turn, has to hold,
\* and a field holds when any of its values matches.
FieldHolds(c, fld, f) == \E v \in c[fld] : ValueMatches(fld, v, f)

RECURSIVE MatchesFrom(_, _, _)
MatchesFrom(c, f, i) ==
    IF i > Len(FieldOrder) THEN TRUE
    ELSE /\ (FieldOrder[i] \in DOMAIN c => FieldHolds(c, FieldOrder[i], f))
         /\ MatchesFrom(c, f, i + 1)

Matches(c, f) == MatchesFrom(c, f, 1)

FilterInit ==
    /\ fpc = "argv"
    /\ fcmd \in FilterCommands
    /\ fargv \in FilterArgvs
    /\ fargs = NoValues
    /\ listed = {}

FilterIdle ==
    /\ fpc = "idle"
    /\ fcmd = "none"
    /\ fargv = NoValues
    /\ fargs = NoValues
    /\ listed = {}

\* parser.parse_args on the filter arguments of the command.
FilterParse ==
    /\ fpc = "argv"
    /\ fargs' = FilterNamespace(fcmd, fargv)
    /\ fpc' = "parsed"
    /\ UNCHANGED <<fcmd, fargv, listed, notFilterVars>>

\* The command's handler selects the findings the criteria match.
FilterList ==
    /\ fpc = "parsed"
    /\ listed' = {f \in FilterFindings : Matches(fargs, f)}
    /\ fpc' = "listed"
    /\ UNCHANGED <<fcmd, fargv, fargs, notFilterVars>>

FilterNext == FilterParse \/ FilterList

(***************************************************************************)
(* 'diff': the parser of __register_diff and __add_common_arguments.       *)
(***************************************************************************)
\* The option strings of the three comparison modes.
ModeOptions == {"--new", "--resolved", "--unresolved"}

\* The options of the diff parser that the model tracks.
DiffOptions == {"-b", "-n"} \cup ModeOptions

\* The values '-o' accepts for diff: "plaintext", the user formats, "html".
OutputFormats == {"plaintext", "json", "html"}

\* How the export directory is written on the command line: not at all, as
\* an option string followed by its value ('-e DIR', '--export-dir DIR'),
\* as an abbreviation of the long option string followed by its value
\* ('--export DIR'), or attached to the option string ('-eDIR',
\* '--export-dir=DIR').
ExportForms == {"none", "separate", "abbreviated", "attached"}

\* The values of -b/--basename (type=str): a run name, or the word "-".
Basenames == {"run", "-"}

DiffArgv ==
    {a \in [seen : SUBSET DiffOptions, output : OutputFormats, export : ExportForms,
            basename : Basenames] :
        "-b" \notin a.seen => a.basename = "run"}

\* Variants of ModeDest with a dest string of one option block written into
\* another: --new and --resolved exchanged, --resolved and --unresolved
\* exchanged, "new" left as the dest of --unresolved, "new" left as the dest
\* of --resolved.
ModeDestNewAsResolved(opt) ==
    CASE opt = "--new" -> "resolved"
      [] opt = "--resolved" -> "new"
      [] opt = "--unresolved" -> "unresolved"

ModeDestResolvedAsUnresolved(opt) ==
    CASE opt = "--new" -> "new"
      [] opt = "--resolved" -> "unresolved"
      [] opt = "--unresolved" -> "resolved"

ModeDestUnresolvedAsNew(opt) ==
    CASE opt = "--new" -> "new"
      [] opt = "--resolved" -> "resolved"
      [] opt = "--unresolved" -> "new"

ModeDestResolvedAsNew(opt) ==
    CASE opt = "--new" -> "new"
      [] opt = "--resolved" -> "new"
      [] opt = "--unresolved" -> "unresolved"

\* dest of a comparison mode option.
ModeDest(opt) ==
    CASE opt = "--new" -> "new"
      [] opt = "--resolved" -> "resolved"
      [] opt = "--unresolved" -> "unresolved"

ModeDests == {ModeDest(o) : o \in ModeOptions}

\* A variant of ModeConflict: the modes added to a plain argument group.
ModeConflictNever(seen) == FALSE

\* group.add_mutually_exclusive_group(required=True): two actions of the
\* group on one command line conflict.
ModeConflict(seen) == Cardinality(seen \cap ModeOptions) >= 2

\* ... and one of them is required.
ModeMissing(seen) == seen \cap ModeOptions = {}

\* required=True of -b/--basename and -n/--newname.
EndpointMissing(seen) == ~({"-b", "-n"} \subseteq seen)

\* What parse_args ends with: conflicts are raised while the arguments are
\* consumed, missing required arguments after that, missing required groups
\* last.
DiffParseError(a) ==
    IF ModeConflict(a.seen) THEN "not allowed with argument"
    ELSE IF EndpointMissing(a.seen) THEN "argument is required"
    ELSE IF ModeMissing(a.seen) THEN "one of the arguments is required"
    ELSE "none"

\* The Namespace of an accepted command line.  Every mode has
\* default=argparse.SUPPRESS: its attribute exists only when it was given;
\* so has export_dir; output_format defaults to "plaintext".
DiffNamespace(a) ==
    LET modes == {ModeDest(o) : o \in a.seen \cap ModeOptions}
        exp == IF a.export = "none" THEN {} ELSE {"export_dir"}
    IN  [k \in {"basename", "newname", "output_format"} \cup modes \cup exp |->
            IF k = "output_format" THEN a.output
            ELSE IF k = "basename" THEN a.basename
            ELSE "given"]

\* any(util.arg_match(['-e', '--export-dir'], sys.argv[1:])): some option
\* string starts with a word of the command line (arg_match as __handle of
\* products add defines it, lines 632-642).  That finds the option string
\* written as a word of its own, an abbreviation of it, and the word "-";
\* with an attached value the word is longer than the option string and
\* is not found.
ExportOptionInArgv(a) ==
    \/ a.export \in {"separate", "abbreviated"}
    \/ "-b" \in a.seen /\ a.basename = "-"

EmptyNamespace == [k \in {} |-> "given"]

DiffIdle ==
    /\ dpc = "idle"
    /\ dargv = [seen |-> {}, output |-> "plaintext", export |-> "none", basename |-> "run"]
    /\ dargs = EmptyNamespace
    /\ derr = "none"
    /\ dcalls = {}
    /\ baseDone = FALSE
    /\ newDone = FALSE
    /\ fetched = <<>>
    /\ base = {}
    /\ new = {}
    /\ result = {}

DiffInit ==
    /\ dpc = "argv"
    /\ dargv \in DiffArgv
    /\ dargs = EmptyNamespace
    /\ derr = "none"
    /\ dcalls = {}
    /\ baseDone = FALSE
    /\ newDone = FALSE
    /\ fetched = <<>>
    /\ base = {}
    /\ new = {}
    /\ result = {}

\* parser.parse_args on the diff subcommand.
DiffParse ==
    /\ dpc = "argv"
    /\ derr' = DiffParseError(dargv)
    /\ IF DiffParseError(dargv) = "none"
       THEN dpc' = "parsed" /\ dargs' = DiffNamespace(dargv)
       ELSE dpc' = "rejected" /\ dargs' = dargs
    /\ UNCHANGED <<dargv, dcalls, baseDone, newDone, fetched, base, new, result, notDiffVars>>

\* A variant of DiffHandle: handle_diff_results called before the check of
\* the output format.
DiffHandleCallsFirst ==
    /\ dpc = "parsed"
    /\ dcalls' = dcalls \cup {"__handle", "handle_diff_results"}
    /\ IF dargs["output_format"] = "html" /\ ~ExportOptionInArgv(dargv)
       THEN /\ dpc' = "rejected"
            /\ derr' = "--output html: not allowed without --export-dir"
       ELSE /\ dpc' = "fetching"
            /\ derr' = derr
    /\ UNCHANGED <<dargv, dargs, baseDone, newDone, fetched, base, new, result, notDiffVars>>

\* __register_diff.__handle.
DiffHandle ==
    /\ dpc = "parsed"
    /\ IF dargs["output_format"] = "html" /\ ~ExportOptionInArgv(dargv)
       THEN /\ dpc' = "rejected"
            /\ derr' = "--output html: not allowed without --export-dir"
            /\ dcalls' = dcalls \cup {"__handle"}
       ELSE /\ dpc' = "fetching"
            /\ derr' = derr
            /\ dcalls' = dcalls \cup {"__handle", "handle_diff_results"}
    /\ UNCHANGED <<dargv, dargs, baseDone, newDone, fetched, base, new, result, notDiffVars>>

\* The comparison mode handle_diff_results reads from the Namespace.
DiffMode(ns) == CHOOSE m \in ModeDests : m \in DOMAIN ns

\* The collaborator fetches the findings of the base endpoint.
FetchBase ==
    /\ dpc = "fetching"
    /\ ~baseDone
    /\ \E S \in FindingSets : base' = S
    /\ baseDone' = TRUE
    /\ fetched' = Append(fetched, "base")
    /\ UNCHANGED <<dpc, dargv, dargs, derr, dcalls, newDone, new, result, notDiffVars>>

\* The collaborator fetches the findings of the new endpoint.
FetchNew ==
    /\ dpc = "fetching"
    /\ ~newDone
    /\ \E S \in FindingSets : new' = S
    /\ newDone' = TRUE
    /\ fetched' = Append(fetched, "new")
    /\ UNCHANGED <<dpc, dargv, dargs, derr, dcalls, baseDone, base, result, notDiffVars>>

\* DiffEngine.diff: classification by report_hash.
Diff(b, n, mode) ==
    CASE mode = "new" -> {f \in n : f.report_hash \notin HashesOf(b)}
      [] mode = "resolved" -> {f \in b : f.report_hash \notin HashesOf(n)}
      [] mode = "unresolved" -> {f \in n : f.report_hash \in HashesOf(b)}

\* Variants of Classify: started as soon as one of the fetches has
\* completed; the set fetched first taken for the base.
ClassifyOnFirstFetch ==
    /\ dpc = "fetching"
    /\ baseDone \/ newDone
    /\ result' = Diff(base, new, DiffMode(dargs))
    /\ dpc' = "done"
    /\ UNCHANGED <<dargv, dargs, derr, dcalls, baseDone, newDone, fetched, base, new, notDiffVars>>

ClassifyInCompletionOrder ==
    /\ dpc = "fetching"
    /\ baseDone /\ newDone
    /\ result' = IF fetched[1] = "base" THEN Diff(base, new, DiffMode(dargs))
                 ELSE Diff(new, base, DiffMode(dargs))
    /\ dpc' = "done"
    /\ UNCHANGED <<dargv, dargs, derr, dcalls, baseDone, newDone, fetched, base, new, notDiffVars>>

\* The classification runs on the two materialised sets.
Classify ==
    /\ dpc = "fetching"
    /\ baseDone /\ newDone
    /\ result' = Diff(base, new, DiffMode(dargs))
    /\ dpc' = "done"
    /\ UNCHANGED <<dargv, dargs, derr, dcalls, baseDone, newDone, fetched, base, new, notDiffVars>>

DiffNext == DiffParse \/ DiffHandle \/ FetchBase \/ FetchNew \/ Classify

(***************************************************************************)
(* 'results': the run name expression of __register_results, and the       *)
(* RunSelector it is resolved by.                                          *)
(***************************************************************************)
\* A variant of NameSeparator: the names separated as the arguments of
\* 'history -n' are, by whitespace.
NameSeparatorSpace == " "

\* The character between the run names of an expression,
\* "<run_name_1>:<run_name_2>".
NameSeparator == ":"

\* The characters of the run names.
RunChars == {"a", "b"}

\* What the user may type as the expression.
Expressions == SeqsUpTo(RunChars \cup {Star, ":"}, MaxExprLen)

\* The run names a server may know.
RunNames == {<<"a">>, <<"b">>, <<"a", "a">>, <<"a", "b">>}

\* Run names are unique; the server lists them in its own order.
Catalogs ==
    {k \in SeqsUpTo(RunNames, MaxKnown) :
        \A i, j \in 1..Len(k) : i # j => k[i] # k[j]}

\* str.split(sep): the pieces between the separators, empty ones included.
RECURSIVE SplitOn(_, _)
SplitOn(str, sep) ==
    IF \A i \in 1..Len(str) : str[i] # sep THEN <<str>>
    ELSE LET i == CHOOSE k \in 1..Len(str) :
                      str[k] = sep /\ \A m \in 1..(k - 1) : str[m] # sep
         IN  <<SubSeq(str, 1, i - 1)>> \o SplitOn(SubSeq(str, i + 1, Len(str)), sep)

\* The raw patterns of an expression.
RawPatterns(e) == SplitOn(e, NameSeparator)

\* RunSelector: a known run name is selected if any pattern matches it.
Selects(e, name) ==
    \E i \in 1..Len(RawPatterns(e)) :
        MatcherMatches(Compile(PatternSyntax("results.name"), RawPatterns(e)[i]), name)

\* RunSelector.resolve: the selected names, in the order of known_run_names.
Resolve(e, k) == SelectSeq(k, LAMBDA name : Selects(e, name))

\* A variant of NoMatchingRun: an empty resolution is passed on.
NoMatchingRunNever(sel) == FALSE

\* NoMatchingRunError: the expression resolved to zero runs.
NoMatchingRun(sel) == sel = <<>>

RunInit ==
    /\ rpc = "input"
    /\ expr \in Expressions
    /\ known \in Catalogs
    /\ resolved = <<>>

RunIdle ==
    /\ rpc = "idle"
    /\ expr = <<>>
    /\ known = <<>>
    /\ resolved = <<>>

\* The expression is resolved against the run names of the server; an
\* expression that selects no run is NoMatchingRunError.
RunResolve ==
    /\ rpc = "input"
    /\ IF NoMatchingRun(Resolve(expr, known))
       THEN rpc' = "no_match" /\ resolved' = <<>>
       ELSE rpc' = "resolved" /\ resolved' = Resolve(expr, known)
    /\ UNCHANGED <<expr, known, notRunVars>>

\* The results of the resolved runs are queried.
RunQuery ==
    /\ rpc = "resolved"
    /\ rpc' = "queried"
    /\ UNCHANGED <<expr, known, resolved, notRunVars>>

RunNext == RunResolve \/ RunQuery

(***************************************************************************)
(* valid_time: the type of --all-after-time and --all-before-time.  The    *)
(* argument is held as the components str.split(':') gives; a component is *)
(* a decimal integer, an integer too large for a C int, or text that int() *)
(* does not accept (the empty string included).                            *)
(***************************************************************************)
\* The number of fields of a datetime the function fills.
TimeFields == 6

IntPart(v) == [kind |-> "int", val |-> v]

\* An integer above INT_MAX; int() reads it, datetime cannot take it.
LongPart == [kind |-> "long", val |-> 0]

\* Text that is no integer.
TextPart == [kind |-> "text", val |-> 0]

\* The integers a component may hold: 2 fits every field; 30 is a year, a
\* minute or a second, no month, no hour, and no day of February, the one
\* month these values name; 60 is a year only.
TimeValues == {2, 30, 60}

TimeParts == {IntPart(v) : v \in TimeValues} \cup {LongPart, TextPart}

\* 'x'.split(':') has at least one component.
TimeInputs == SeqsUpTo(TimeParts, MaxParts) \ {<<>>}

\* A variant of ZeroFill: nothing is filled in.
ZeroFillNothing(parts) == parts

\* parts + [0] * (6 - len(parts)); a negative count gives the empty list.
ZeroFill(parts) == parts \o [i \in 1..(TimeFields - Len(parts)) |-> IntPart(0)]

\* calendar.isleap
IsLeap(y) == y % 4 = 0 /\ (y % 100 # 0 \/ y % 400 = 0)

\* The days of a month of the proleptic Gregorian calendar.
DaysInMonth(y, m) ==
    IF m = 2 THEN (IF IsLeap(y) THEN 29 ELSE 28)
    ELSE IF m \in {4, 6, 9, 11} THEN 30 ELSE 31

\* The field checks of the datetime constructor.
DatetimeInRange(y, m, d, hh, mm, ss) ==
    /\ y \in 1..9999
    /\ m \in 1..12
    /\ d \in 1..DaysInMonth(y, m)
    /\ hh \in 0..23
    /\ mm \in 0..59
    /\ ss \in 0..59

NoTime == [outcome |-> "none", fields |-> <<>>]

ArgumentTypeError == [outcome |-> "ArgumentTypeError", fields |-> <<>>]

\* OverflowError is no ValueError: the except clause does not catch it.
OverflowError == [outcome |-> "OverflowError", fields |-> <<>>]

\* valid_time(t).  int() raises ValueError on text; the unpacking raises
\* ValueError when there are more than six values; the datetime constructor
\* raises OverflowError on an argument that does not fit a C int, before it
\* checks any range, and ValueError on a field out of range.
ValidTime(t) ==
    IF \E i \in 1..Len(t) : t[i].kind = "text" THEN ArgumentTypeError
    ELSE LET parts == ZeroFill(t)
         IN  IF Len(parts) # TimeFields THEN ArgumentTypeError
             ELSE IF \E i \in 1..TimeFields : parts[i].kind = "long"
             THEN OverflowError
             ELSE IF ~DatetimeInRange(parts[1].val, parts[2].val, parts[3].val,
                                      parts[4].val, parts[5].val, parts[6].val)
             THEN ArgumentTypeError
             ELSE [outcome |-> "datetime",
                   fields |-> [i \in 1..TimeFields |-> parts[i].val]]

TimeInit ==
    /\ tpc = "input"
    /\ tinput \in TimeInputs
    /\ tresult = NoTime

TimeIdle ==
    /\ tpc = "idle"
    /\ tinput = <<>>
    /\ tresult = NoTime

\* argparse applies the type to the argument string.
TimeCall ==
    /\ tpc = "input"
    /\ tresult' = ValidTime(tinput)
    /\ tpc' = "called"
    /\ UNCHANGED <<tinput, notTimeVars>>

TimeNext == TimeCall

(***************************************************************************)
(* 'del': the parser of __register_delete, and the RetentionSelector the   *)
(* parsed request is resolved by.                                          *)
(***************************************************************************)
\* The option strings of the five ways to say which runs to delete.
DeleteOptions ==
    {"-n", "--all-before-run", "--all-after-run",
     "--all-after-time", "--all-before-time"}

RunOptions == {"--all-before-run", "--all-after-run"}

\* The options with type=valid_time.
TimeOptions == {"--all-after-time", "--all-before-time"}

\* A variant of VariantDest: --all-before-run stored as all_after_run.
VariantDestBeforeRunAsAfterRun(opt) ==
    CASE opt = "-n" -> "name"
      [] opt = "--all-before-run" -> "all_after_run"
      [] opt = "--all-after-run" -> "all_after_run"
      [] opt = "--all-after-time" -> "all_after_time"
      [] opt = "--all-before-time" -> "all_before_time"

\* dest of each option.
VariantDest(opt) ==
    CASE opt = "-n" -> "name"
      [] opt = "--all-before-run" -> "all_before_run"
      [] opt = "--all-after-run" -> "all_after_run"
      [] opt = "--all-after-time" -> "all_after_time"
      [] opt = "--all-before-time" -> "all_before_time"

VariantDests == {VariantDest(o) : o \in DeleteOptions}

\* The run names of a server.
DelNames == {"r1", "r2", "r3"}

\* The RUN_NAMEs of a command line.
GivenNames == DelNames \cup {"r*"}

\* The store timestamps of runs.
StoreTimes == {10, 20, 30}

\* The instants a time argument may name.
RefInstants == {10, 20, 25}

\* What valid_time makes of the TIMESTAMP of a command line: a datetime (an
\* instant), ArgumentTypeError or OverflowError.
TimeArgs ==
    {[outcome |-> "datetime", at |-> t] : t \in RefInstants} \cup
    {[outcome |-> "ArgumentTypeError", at |-> 0],
     [outcome |-> "OverflowError", at |-> 0]}

NoTimeArg == [outcome |-> "none", at |-> 0]

\* The command lines: the options named, the RUN_NAMEs after -n, the
\* RUN_NAME after --all-before-run or --all-after-run, the TIMESTAMP after
\* --all-after-time or --all-before-time.
DeleteArgv ==
    {a \in [seen : {S \in SUBSET DeleteOptions : Cardinality(S) <= MaxVariants},
            names : SUBSET GivenNames,
            run : GivenNames \cup {"none"},
            time : TimeArgs \cup {NoTimeArg}] :
        /\ (a.names # {}) = ("-n" \in a.seen)
        /\ (a.run # "none") = (a.seen \cap RunOptions # {})
        /\ (a.time # NoTimeArg) = (a.seen \cap TimeOptions # {})}

\* The servers: every run has a unique name and a store timestamp.
DeleteCatalogs == UNION {[S -> StoreTimes] : S \in SUBSET DelNames}

\* A variant of DeleteConflict: the options are in no exclusive group.
DeleteConflictNever(seen) == FALSE

\* parser.add_mutually_exclusive_group(required=True): two options of the
\* group on one command line conflict.
DeleteConflict(seen) == Cardinality(seen) >= 2

\* ... and one of them is required.
DeleteMissing(seen) == seen = {}

\* The value of a time option is converted when the option is consumed,
\* before the option is checked against the group.
TimeArgFails(a, outcome) == a.seen \cap TimeOptions # {} /\ a.time.outcome = outcome

\* What parse_args can end with.  The options are consumed in the order of
\* the command line: a TIMESTAMP valid_time does not accept ends the parse
\* at its option, a second option of the group at that option; a conflict
\* comes before a bad TIMESTAMP only when two other options precede it.
DeleteParseErrors(a) ==
    LET bad == TimeArgFails(a, "ArgumentTypeError") \/ TimeArgFails(a, "OverflowError")
    IN  {e \in {"invalid valid_time value", "OverflowError",
                "not allowed with argument", "one of the arguments is required"} :
            CASE e = "invalid valid_time value" -> TimeArgFails(a, "ArgumentTypeError")
              [] e = "OverflowError" -> TimeArgFails(a, "OverflowError")
              [] e = "not allowed with argument" ->
                    /\ DeleteConflict(a.seen)
                    /\ (~bad \/ Cardinality(a.seen \ TimeOptions) >= 2)
              [] e = "one of the arguments is required" -> DeleteMissing(a.seen)}

\* A variant of NameValues: -n without nargs='+' keeps one name.
NameValuesOne(names) == {CHOOSE n \in names : TRUE}

\* nargs='+': the attribute is the list of all the names after -n.
NameValues(names) == names

\* The Namespace of an accepted command line.  Every option has
\* default=argparse.SUPPRESS: its attribute exists only when it was given.
DeleteNamespace(a) ==
    [d \in {VariantDest(o) : o \in a.seen} |->
        [names |-> IF d = "name" THEN NameValues(a.names) ELSE {},
         run |-> IF d \in {"all_before_run", "all_after_run"} THEN a.run ELSE "none",
         at |-> IF d \in {"all_after_time", "all_before_time"} THEN a.time.at ELSE 0]]

NoDeleteArgv == [seen |-> {}, names |-> {}, run |-> "none", time |-> NoTimeArg]

DeleteInit ==
    /\ xpc = "argv"
    /\ xargv \in DeleteArgv
    /\ xargs = EmptyNamespace
    /\ xerr = "none"
    /\ catalog \in DeleteCatalogs
    /\ selected = {}

DeleteIdle ==
    /\ xpc = "idle"
    /\ xargv = NoDeleteArgv
    /\ xargs = EmptyNamespace
    /\ xerr = "none"
    /\ catalog = EmptyNamespace
    /\ selected = {}

\* parser.parse_args on the del subcommand.
DeleteParse ==
    /\ xpc = "argv"
    /\ IF DeleteParseErrors(xargv) = {}
       THEN xpc' = "parsed" /\ xargs' = DeleteNamespace(xargv) /\ xerr' = "none"
       ELSE /\ xerr' \in DeleteParseErrors(xargv)
            /\ xpc' = IF xerr' = "OverflowError" THEN "crashed" ELSE "rejected"
            /\ xargs' = xargs
    /\ UNCHANGED <<xargv, catalog, selected, notDelVars>>

\* The attribute the handler finds in the Namespace.
DeleteVariant(ns) == CHOOSE d \in VariantDests : d \in DOMAIN ns

\* The runs the request names: those of -n, or the reference run.
NamedRuns(ns) ==
    LET d == DeleteVariant(ns)
    IN  IF d = "name" THEN ns[d].names
        ELSE IF d \in {"all_before_run", "all_after_run"} THEN {ns[d].run}
        ELSE {}

\* UnknownRunError: a named run does not exist.
UnknownRun(ns, cat) == ~(NamedRuns(ns) \subseteq DOMAIN cat)

\* RetentionSelector.resolve on a request whose named runs exist.
RetentionResolve(ns, cat) ==
    LET d == DeleteVariant(ns)
    IN  CASE d = "name" -> ns[d].names
          [] d = "all_before_run" -> {r \in DOMAIN cat : cat[r] < cat[ns[d].run]}
          [] d = "all_after_run" -> {r \in DOMAIN cat : cat[r] > cat[ns[d].run]}
          [] d = "all_before_time" -> {r \in DOMAIN cat : cat[r] < ns[d].at}
          [] d = "all_after_time" -> {r \in DOMAIN cat : cat[r] > ns[d].at}

\* The handler of del resolves the request against the runs of the server.
DeleteResolve ==
    /\ xpc = "parsed"
    /\ IF UnknownRun(xargs, catalog)
       THEN xpc' = "unknown_run" /\ xerr' = "UnknownRunError" /\ selected' = {}
       ELSE xpc' = "selected" /\ xerr' = xerr
            /\ selected' = RetentionResolve(xargs, catalog)
    /\ UNCHANGED <<xargv, xargs, catalog, notDelVars>>

DeleteNext == DeleteParse \/ DeleteResolve

(***************************************************************************)
(* The endpoints of a diff: each of -b and -n resolves to one or more runs *)
(* of the server, and the filter arguments of the command line go with the *)
(* request.                                                                *)
(***************************************************************************)
StoredRuns == {"r1", "r2", "r3"}

StoredHashes == 1..MaxStoredHash

\* A stored finding: what the diff compares, and what the filter arguments
\* named in the help of diff (review status, detection status) look at.
StoredFinding ==
    [report_hash : StoredHashes,
     review_status : {"unreviewed"},
     detection_status : {"new", "resolved"}]

\* Within one run a report hash names one finding.
StoredFindingSets ==
    {S \in SUBSET StoredFinding :
        \A f, g \in S : f.report_hash = g.report_hash => f = g}

\* The filter options of the command line: none, or --detection-status.
QueryArgvs ==
    {NoValues} \cup
    {("detection_status" :> vs) : vs \in {{"resolved"}, {"new", "resolved"}}}

QueryRequests ==
    [argv : QueryArgvs,
     mode : ModeDests,
     base : SUBSET StoredRuns \ {{}},
     new : SUBSET StoredRuns \ {{}}]

NoRequest == [argv |-> NoValues, mode |-> "none", base |-> {}, new |-> {}]

\* A variant of EndpointFindings: one of the matched runs stands for all.
EndpointFindingsOneRun(runs, crit) ==
    {f \in store[CHOOSE r \in runs : TRUE] : Matches(crit, f)}

\* A variant of EndpointFindings: the criteria are left for after the
\* classification.
EndpointFindingsUnfiltered(runs, crit) == UNION {store[r] : r \in runs}

\* The finding set of an endpoint: the findings of every matched run that
\* the criteria accept, the runs taken together.
EndpointFindings(runs, crit) ==
    UNION {{f \in store[r] : Matches(crit, f)} : r \in runs}

QueryInit ==
    /\ qpc = "request"
    /\ qreq \in QueryRequests
    /\ store \in [StoredRuns -> StoredFindingSets]
    /\ qbase = {}
    /\ qnew = {}
    /\ qresult = {}

QueryIdle ==
    /\ qpc = "idle"
    /\ qreq = NoRequest
    /\ store = EmptyNamespace
    /\ qbase = {}
    /\ qnew = {}
    /\ qresult = {}

\* The finding sets of the two endpoints are fetched with the criteria of
\* the command line.
QueryFetch ==
    /\ qpc = "request"
    /\ qbase' = EndpointFindings(qreq.base, FilterNamespace("diff", qreq.argv))
    /\ qnew' = EndpointFindings(qreq.new, FilterNamespace("diff", qreq.argv))
    /\ qpc' = "fetched"
    /\ UNCHANGED <<qreq, store, qresult, notQueryVars>>

\* The classification runs on the two endpoint sets.
QueryClassify ==
    /\ qpc = "fetched"
    /\ qresult' = Diff(qbase, qnew, qreq.mode)
    /\ qpc' = "done"
    /\ UNCHANGED <<qreq, store, qbase, qnew, notQueryVars>>

QueryNext == QueryFetch \/ QueryClassify

(***************************************************************************)
(* 'products add': the parser of __register_products.__register_add and    *)
(* its __handle.  Attribute values are strings.                            *)
(***************************************************************************)
\* The option strings of the "PostgreSQL arguments" group, by dest.
PgOptionStrings ==
    {"--dbaddress", "--db-host", "--dbport", "--db-port",
     "--dbusername", "--db-username", "--dbpassword", "--db-password",
     "--dbname", "--db-name"}

PgDest(opt) ==
    CASE opt \in {"--dbaddress", "--db-host"} -> "dbaddress"
      [] opt \in {"--dbport", "--db-port"} -> "dbport"
      [] opt \in {"--dbusername", "--db-username"} -> "dbusername"
      [] opt \in {"--dbpassword", "--db-password"} -> "dbpassword"
      [] opt \in {"--dbname", "--db-name"} -> "dbname"

PgDests == {"dbaddress", "dbport", "dbusername", "dbpassword", "dbname"}

SQLITE_PRODUCT_ENDPOINT_DEFAULT_VAR == "<ENDPOINT>.sqlite"

PGSQL_PRODUCT_ENDPOINT_DEFAULT_VAR == "<ENDPOINT>"

\* The ENDPOINT of the command line.
Endpoint == "ep"

\* default= of each PostgreSQL argument.
PgDefault(d) ==
    CASE d = "dbaddress" -> "localhost"
      [] d = "dbport" -> "5432"
      [] d = "dbusername" -> PGSQL_PRODUCT_ENDPOINT_DEFAULT_VAR
      [] d = "dbpassword" -> ""
      [] d = "dbname" -> PGSQL_PRODUCT_ENDPOINT_DEFAULT_VAR

\* The command lines.  pg: the PostgreSQL option strings named; attached:
\* they are written --option=value, not --option value; value: what they
\* are followed by, some text of the user or the text "<ENDPOINT>"; sqlite:
\* the value of --sqlite, "none" when it is not given; postgresql:
\* --postgresql is given; description: the value of --description, "none"
\* when it is not given.
AddArgv ==
    {a \in [pg : {S \in SUBSET PgOptionStrings : Cardinality(S) <= MaxPgGiven},
            attached : BOOLEAN,
            value : {"custom", PGSQL_PRODUCT_ENDPOINT_DEFAULT_VAR},
            sqlite : {"none", "custom.sqlite", SQLITE_PRODUCT_ENDPOINT_DEFAULT_VAR},
            postgresql : BOOLEAN,
            description : {"none", "text", "-"}] :
        a.pg = {} => (~a.attached /\ a.value = "custom")}

\* dbmodes.add_mutually_exclusive_group(required=False) of --sqlite and
\* --postgresql; type=int of --dbport.
AddParseError(a) ==
    IF \E o \in a.pg : PgDest(o) = "dbport" /\ a.value # "custom"
    THEN "invalid int value"
    ELSE IF a.sqlite # "none" /\ a.postgresql THEN "not allowed with argument"
    ELSE "none"

\* The attribute of a PostgreSQL argument: the value given, or the default.
PgValue(d, a) ==
    IF \E o \in a.pg : PgDest(o) = d
    THEN (IF a.value = "custom" /\ d = "dbport" THEN "5433" ELSE a.value)
    ELSE PgDefault(d)

\* The Namespace of an accepted command line.  --postgresql, -n/--name and
\* --description have default=argparse.SUPPRESS.
AddNamespace(a) ==
    [k \in {"endpoint", "sqlite"} \cup PgDests
            \cup (IF a.postgresql THEN {"postgresql"} ELSE {})
            \cup (IF a.description # "none" THEN {"description"} ELSE {}) |->
        CASE k = "endpoint" -> Endpoint
          [] k = "sqlite" ->
                IF a.sqlite = "none" THEN SQLITE_PRODUCT_ENDPOINT_DEFAULT_VAR ELSE a.sqlite
          [] k = "postgresql" -> "True"
          [] k = "description" -> a.description
          [] OTHER -> PgValue(k, a)]

\* option.startswith(arg) for some arg of sys.argv[1:] that is not empty:
\* the option string itself written as a word of its own (the word of
\* --option=value is longer than the option string), or a word every
\* option string starts with, "-".
OptionStartsWithAnArg(option, a) ==
    \/ option \in a.pg /\ ~a.attached
    \/ a.description = "-"

\* The option strings __handle looks for.
PgCheckedOptions ==
    <<"--dbaddress", "--dbport", "--dbusername", "--dbname",
      "--db-host", "--db-port", "--db-username", "--db-name">>

\* arg_match(options): the options found in the invocation, in the order
\* of options.
arg_match(options, a) == SelectSeq(options, LAMBDA o : OptionStartsWithAnArg(o, a))

NoError == [kind |-> "none", option |-> "none"]

NoAddArgv ==
    [pg |-> {}, attached |-> FALSE, value |-> "custom", sqlite |-> "none",
     postgresql |-> FALSE, description |-> "none"]

AddInit ==
    /\ apc = "argv"
    /\ aargv \in AddArgv
    /\ aargs = EmptyNamespace
    /\ aerr = NoError
    /\ acalls = {}

AddIdle ==
    /\ apc = "idle"
    /\ aargv = NoAddArgv
    /\ aargs = EmptyNamespace
    /\ aerr = NoError
    /\ acalls = {}

\* parser.parse_args on the products add subcommand.
AddParse ==
    /\ apc = "argv"
    /\ IF AddParseError(aargv) = "none"
       THEN apc' = "parsed" /\ aargs' = AddNamespace(aargv) /\ aerr' = aerr
       ELSE /\ apc' = "rejected"
            /\ aargs' = aargs
            /\ aerr' = [kind |-> AddParseError(aargv), option |-> "none"]
    /\ UNCHANGED <<aargv, acalls, notAddVars>>

\* A variant of WithEndpointDefaults: dbname left as it was parsed.
WithEndpointDefaultsButDbname(ns) ==
    [k \in DOMAIN ns |->
        IF k = "sqlite" /\ ns[k] = SQLITE_PRODUCT_ENDPOINT_DEFAULT_VAR
        THEN ns["endpoint"] \o ".sqlite"
        ELSE IF k = "dbusername" /\ ns[k] = PGSQL_PRODUCT_ENDPOINT_DEFAULT_VAR
        THEN ns["endpoint"]
        ELSE ns[k]]

\* The attributes after the dynamic defaults are filled in from the
\* endpoint.
WithEndpointDefaults(ns) ==
    [k \in DOMAIN ns |->
        IF k = "sqlite" /\ ns[k] = SQLITE_PRODUCT_ENDPOINT_DEFAULT_VAR
        THEN ns["endpoint"] \o ".sqlite"
        ELSE IF k \in {"dbusername", "dbname"} /\ ns[k] = PGSQL_PRODUCT_ENDPOINT_DEFAULT_VAR
        THEN ns["endpoint"]
        ELSE ns[k]]

\* delattr of the attributes of the database mode that is not used.
WithOneDatabaseMode(ns) ==
    [k \in IF "postgresql" \in DOMAIN ns
           THEN DOMAIN ns \ {"sqlite"}
           ELSE DOMAIN ns \ PgDests |-> ns[k]]

\* __register_add.__handle.
AddHandle ==
    /\ apc = "parsed"
    /\ LET psql_args_matching == arg_match(PgCheckedOptions, aargv)
       IN  IF psql_args_matching # <<>> /\ "postgresql" \notin DOMAIN aargs
           THEN /\ apc' = "rejected"
                /\ aerr' = [kind |-> "not allowed without argument --postgresql",
                            option |-> psql_args_matching[1]]
                /\ aargs' = aargs
                /\ acalls' = acalls \cup {"__handle"}
           ELSE /\ apc' = "added"
                /\ aerr' = aerr
                /\ aargs' = WithOneDatabaseMode(WithEndpointDefaults(aargs))
                /\ acalls' = acalls \cup {"__handle", "handle_add_product"}
    /\ UNCHANGED <<aargv, notAddVars>>

AddNext == AddParse \/ AddHandle

(***************************************************************************)
(* The deprecated --filter option of __add_filtering_arguments.  cmd.py    *)
(* stores the string as it is; what is made of it is the client's, which   *)
(* is not part of the examined source and is modelled from the             *)
(* specification.                                                          *)
(***************************************************************************)
\* A variant of FilterStringOrder: the two status segments exchanged.
FilterStringOrderStatusesExchanged ==
    <<"severity", "checker_name", "file_path", "review_status", "detection_status">>

\* "[<SEVERITIES>]:[<CHECKER_NAMES>]:[<FILE_PATHS>]:[<DETECTION_STATUSES>]:
\* [<REVIEW_STATUSES>]": the dest each segment of the string stands for.
FilterStringOrder ==
    <<"severity", "checker_name", "file_path", "detection_status", "review_status">>

\* "... should be a comma separated list".
SegmentSeparator == ":"

ValueSeparator == ","

FilterChars == {"a", "b"}

FilterStrings == SeqsUpTo(FilterChars \cup {SegmentSeparator, ValueSeparator}, MaxFilterLen)

\* The characters of a value as one string.
RECURSIVE Joined(_)
Joined(chars) == IF chars = <<>> THEN "" ELSE Head(chars) \o Joined(Tail(chars))

\* The Namespace of '--filter STRING': type=str, dest='filter', next to the
\* filter attributes of a command line that names no other filter option.
LegacyNamespace(cmd, str) == [filter |-> str, attrs |-> FilterNamespace(cmd, NoValues)]

\* The segments of the string, and the values of one segment.
FilterSegments(str) == SplitOn(str, SegmentSeparator)

SegmentValues(segment) ==
    LET pieces == SplitOn(segment, ValueSeparator)
    IN  {Joined(pieces[i]) : i \in 1..Len(pieces)}

\* The string has to have a segment for each of the five fields.
FilterStringMalformed(str) == Len(FilterSegments(str)) # Len(FilterStringOrder)

\* The fields the string gives values for: a segment left blank gives none.
ParseFilterString(str) ==
    LET segments == FilterSegments(str)
        given == {i \in 1..Len(FilterStringOrder) : segments[i] # <<>>}
    IN  [fld \in {FilterStringOrder[i] : i \in given} |->
            SegmentValues(segments[CHOOSE i \in given : FilterStringOrder[i] = fld])]

\* The criteria: the fields of the string, and for the others what the
\* Namespace holds.
LegacyFilterCriteria(ns) ==
    LET parsed == ParseFilterString(ns.filter)
    IN  [fld \in DOMAIN parsed \cup DOMAIN ns.attrs |->
            IF fld \in DOMAIN parsed THEN parsed[fld] ELSE ns.attrs[fld]]

NoLegacyArgs == [filter |-> <<>>, attrs |-> NoValues]

LegacyInit ==
    /\ lpc = "argv"
    /\ lcmd \in FilterCommands
    /\ lfilter \in FilterStrings
    /\ largs = NoLegacyArgs
    /\ lcriteria = NoValues

LegacyIdle ==
    /\ lpc = "idle"
    /\ lcmd = "none"
    /\ lfilter = <<>>
    /\ largs = NoLegacyArgs
    /\ lcriteria = NoValues

\* parser.parse_args on '--filter STRING'.
LegacyParse ==
    /\ lpc = "argv"
    /\ largs' = LegacyNamespace(lcmd, lfilter)
    /\ lpc' = "parsed"
    /\ UNCHANGED <<lcmd, lfilter, lcriteria, notLegacyVars>>

\* The client makes the criteria of the Namespace.
LegacyBuild ==
    /\ lpc = "parsed"
    /\ IF FilterStringMalformed(largs.filter)
       THEN lpc' = "rejected" /\ lcriteria' = lcriteria
       ELSE lpc' = "criteria" /\ lcriteria' = LegacyFilterCriteria(largs)
    /\ UNCHANGED <<lcmd, lfilter, largs, notLegacyVars>>

LegacyNext == LegacyParse \/ LegacyBuild

InitDiff ==
    /\ DiffInit
    /\ PatIdle
    /\ FilterIdle
    /\ RunIdle
    /\ TimeIdle
    /\ DeleteIdle
    /\ QueryIdle
    /\ AddIdle
    /\ LegacyIdle

SpecDiff == InitDiff /\ [][DiffNext]_vars

InitPattern ==
    /\ PatInit
    /\ DiffIdle
    /\ FilterIdle
    /\ RunIdle
    /\ TimeIdle
    /\ DeleteIdle
    /\ QueryIdle
    /\ AddIdle
    /\ LegacyIdle

SpecPattern == InitPattern /\ [][PatNext]_vars

InitFilter ==
    /\ FilterInit
    /\ DiffIdle
    /\ PatIdle
    /\ RunIdle
    /\ TimeIdle
    /\ DeleteIdle
    /\ QueryIdle
    /\ AddIdle
    /\ LegacyIdle

SpecFilter == InitFilter /\ [][FilterNext]_vars

InitRun ==
    /\ RunInit
    /\ DiffIdle
    /\ PatIdle
    /\ FilterIdle
    /\ TimeIdle
    /\ DeleteIdle
    /\ QueryIdle
    /\ AddIdle
    /\ LegacyIdle

SpecRun == InitRun /\ [][RunNext]_vars

InitTime ==
    /\ TimeInit
    /\ DiffIdle
    /\ PatIdle
    /\ FilterIdle
    /\ RunIdle
    /\ DeleteIdle
    /\ QueryIdle
    /\ AddIdle
    /\ LegacyIdle

SpecTime == InitTime /\ [][TimeNext]_vars

InitDelete ==
    /\ DeleteInit
    /\ DiffIdle
    /\ PatIdle
    /\ FilterIdle
    /\ RunIdle
    /\ TimeIdle
    /\ QueryIdle
    /\ AddIdle
    /\ LegacyIdle

SpecDelete == InitDelete /\ [][DeleteNext]_vars

InitQuery ==
    /\ QueryInit
    /\ DiffIdle
    /\ PatIdle
    /\ FilterIdle
    /\ RunIdle
    /\ TimeIdle
    /\ DeleteIdle
    /\ AddIdle
    /\ LegacyIdle

SpecQuery == InitQuery /\ [][QueryNext]_vars

InitAdd ==
    /\ AddInit
    /\ DiffIdle
    /\ PatIdle
    /\ FilterIdle
    /\ RunIdle
    /\ TimeIdle
    /\ DeleteIdle
    /\ QueryIdle
    /\ LegacyIdle

SpecAdd == InitAdd /\ [][AddNext]_vars

InitLegacy ==
    /\ LegacyInit
    /\ DiffIdle
    /\ PatIdle
    /\ FilterIdle
    /\ RunIdle
    /\ TimeIdle
    /\ DeleteIdle
    /\ QueryIdle
    /\ AddIdle

SpecLegacy == InitLegacy /\ [][LegacyNext]_vars

\* One invocation of the client: args.func(args) of the subcommand the
\* command line names, here one of diff, del and products add.
InitCommand == InitDiff \/ InitDelete \/ InitAdd

CommandNext == DiffNext \/ DeleteNext \/ AddNext

SpecCommand == InitCommand /\ [][CommandNext]_vars

(***************************************************************************)
(* Properties of 'diff'.                                                   *)
(***************************************************************************)
\* The comparison mode option the user gave, on an accepted command line.
GivenModeIs(opt) == dargv.seen \cap ModeOptions = {opt}

\* C1: a finished diff requested with --new reports exactly the findings of
\* new whose report_hash does not occur in base; with an empty base that is
\* all of new, and for base hashes {1,2} and new hashes {2,3} it is the
\* finding with hash 3.
C1_NewIsNewMinusBase ==
    (dpc = "done" /\ GivenModeIs("--new")) =>
        /\ result = {f \in new : \A g \in base : g.report_hash # f.report_hash}
        /\ (base = {} => result = new)
        /\ (HashesOf(base) = {1, 2} /\ HashesOf(new) = {2, 3} =>
                HashesOf(result) = {3})

C1_Witness ==
    /\ dpc = "done" /\ GivenModeIs("--new")
    /\ HashesOf(base) = {1, 2} /\ HashesOf(new) = {2, 3}
    /\ HashesOf(result) = {3}

\* C2: a finished diff requested with --resolved reports exactly the findings
\* whose report_hash occurs in base but not in new, each reported value being
\* the one base holds; with an empty new that is all of base.
C2_ResolvedIsBaseMinusNew ==
    (dpc = "done" /\ GivenModeIs("--resolved")) =>
        /\ \A f \in Finding :
              f \in result <=>
                 (f \in base /\ \A g \in new : g.report_hash # f.report_hash)
        /\ result \subseteq base
        /\ (new = {} => result = base)
        /\ (HashesOf(base) = {1, 2} /\ HashesOf(new) = {2, 3} =>
                HashesOf(result) = {1})

C2_Witness ==
    /\ dpc = "done" /\ GivenModeIs("--resolved")
    /\ HashesOf(base) = {1, 2} /\ HashesOf(new) = {2, 3}
    /\ \E f \in result : f \in base /\ f \notin new

\* C3: a finished diff requested with --unresolved reports exactly the hashes
\* that occur in both sets, each reported value (detection_status included)
\* being the one new holds and not the one base holds; for hash-disjoint
\* sets it reports nothing.
C3_UnresolvedIsCommonFromNew ==
    (dpc = "done" /\ GivenModeIs("--unresolved")) =>
        /\ HashesOf(result) = HashesOf(base) \cap HashesOf(new)
        /\ result \subseteq new
        /\ \A f \in result : f \notin new => f \notin base
        /\ \A f \in base : f \notin new => f \notin result
        /\ (HashesOf(base) \cap HashesOf(new) = {} => result = {})

C3_Witness ==
    /\ dpc = "done" /\ GivenModeIs("--unresolved")
    /\ \E f \in result, g \in base :
          /\ f.report_hash = g.report_hash
          /\ f.detection_status # g.detection_status
          /\ f \in new

\* What the diff reports for the two fetched sets when the option opt is the
\* comparison mode given.
ReportedFor(opt) == Diff(base, new, ModeDest(opt))

\* C4: for the two fetched sets the three modes partition the hashes: New
\* and Resolved share none, New with Unresolved are the hashes of new,
\* Resolved with Unresolved are the hashes of base.
C4_ModesPartitionHashes ==
    (baseDone /\ newDone) =>
        LET hNew == HashesOf(ReportedFor("--new"))
            hRes == HashesOf(ReportedFor("--resolved"))
            hUnr == HashesOf(ReportedFor("--unresolved"))
        IN  /\ hNew \cap hRes = {}
            /\ hNew \cup hUnr = HashesOf(new)
            /\ hRes \cup hUnr = HashesOf(base)
            /\ hNew \cap hUnr = {}
            /\ hRes \cap hUnr = {}

C4_Witness ==
    /\ baseDone /\ newDone
    /\ ReportedFor("--new") # {}
    /\ ReportedFor("--resolved") # {}
    /\ ReportedFor("--unresolved") # {}

\* C5: a request that reaches the diff handler names exactly one comparison
\* mode and its Namespace holds exactly that one mode attribute; a command
\* line naming none or several is rejected by the parser and no function is
\* called for it.
C5_ExactlyOneMode ==
    /\ ("__handle" \in dcalls =>
            /\ Cardinality(dargv.seen \cap ModeOptions) = 1
            /\ Cardinality(DOMAIN dargs \cap ModeDests) = 1
            /\ \E o \in dargv.seen \cap ModeOptions : ModeDest(o) \in DOMAIN dargs)
    /\ ((dpc # "argv" /\ Cardinality(dargv.seen \cap ModeOptions) # 1) =>
            dpc = "rejected" /\ dcalls = {} /\ derr # "none")

C5_Witness ==
    /\ dpc = "rejected"
    /\ {"-b", "-n"} \subseteq dargv.seen
    /\ Cardinality(dargv.seen \cap ModeOptions) >= 2
    /\ derr = "not allowed with argument"
    /\ dcalls = {}

(***************************************************************************)
(* Properties of patterns.                                                 *)
(***************************************************************************)
\* s can be produced from p by replacing each '*' with some string.
RECURSIVE Produces(_, _)
Produces(p, s) ==
    IF p = <<>> THEN s = <<>>
    ELSE IF Head(p) = Star
    THEN \E k \in 0..Len(s) : Produces(Tail(p), SubSeq(s, k + 1, Len(s)))
    ELSE s # <<>> /\ Head(s) = Head(p) /\ Produces(Tail(p), Tail(s))

HasStar(p) == \E i \in 1..Len(p) : p[i] = Star

\* The arguments whose help text describes '*' patterns.
StarSites ==
    {"results.name", "diff.basename", "diff.newname",
     "file_path", "checker_name", "checker_msg"}

Str_core_star == <<"c", "o", "r", "e", ".", "*">>

Str_core_DeadStores ==
    <<"c", "o", "r", "e", ".", "D", "e", "a", "d", "S", "t", "o", "r", "e", "s">>

Str_cwe_core == <<"c", "w", "e", ".", "c", "o", "r", "e">>

Str_star_DeadStores == <<"*", "D", "e", "a", "d", "S", "t", "o", "r", "e", "s">>

Str_deadcode_DeadStores ==
    <<"d", "e", "a", "d", "c", "o", "d", "e", ".",
      "D", "e", "a", "d", "S", "t", "o", "r", "e", "s">>

Str_a_star_cpp == <<"/", "a", "/", "*", ".", "c", "p", "p">>

Str_a_x_cpp == <<"/", "a", "/", "x", ".", "c", "p", "p">>

Str_a_y_cpp == <<"/", "a", "/", "y", ".", "c", "p", "p">>

\* What the pattern p accepts at an argument.
SiteMatches(st, p, s) == MatcherMatches(Compile(PatternSyntax(st), p), s)

\* C9: at the arguments documented to take '*' patterns, every pattern
\* compiles, and the compiled pattern accepts a candidate exactly when the
\* whole candidate can be produced from the pattern by replacing each '*'
\* with some string: "core.*" accepts "core.DeadStores" and not "cwe.core",
\* "*DeadStores" accepts "deadcode.DeadStores", "/a/*.cpp" accepts
\* "/a/x.cpp" and "/a/y.cpp", "*" accepts every candidate.
C9_StarPatternAnchored ==
    (site \in StarSites /\ ppc # "input") =>
        /\ ppc # "invalid"
        /\ (ppc = "matched" =>
                /\ matchedSet = {s \in Candidates : Produces(pattern, s)}
                /\ (pattern = <<Star>> => matchedSet = Candidates))
        /\ SiteMatches(site, Str_core_star, Str_core_DeadStores)
        /\ ~SiteMatches(site, Str_core_star, Str_cwe_core)
        /\ SiteMatches(site, Str_star_DeadStores, Str_deadcode_DeadStores)
        /\ SiteMatches(site, Str_a_star_cpp, Str_a_x_cpp)
        /\ SiteMatches(site, Str_a_star_cpp, Str_a_y_cpp)

C9_Witness ==
    /\ ppc = "matched"
    /\ site = "checker_name"
    /\ pattern = <<"a", Star, ".">>
    /\ <<"a", ".">> \in matchedSet
    /\ <<"a", "A", ".">> \in matchedSet
    /\ <<"a", ".", "a">> \notin matchedSet
    /\ <<"A", "a", ".">> \notin matchedSet

\* C10: at every argument that takes a pattern, run names included, '*' is
\* the only metacharacter: a pattern accepts exactly the candidates it
\* produces by replacing its stars, a pattern without '*' accepts exactly the
\* candidate equal to it, and a pattern without '*' is never invalid.
C10_StarIsTheOnlyMetacharacter ==
    /\ (ppc = "invalid" => HasStar(pattern))
    /\ (ppc = "matched" =>
            /\ matchedSet = {s \in Candidates : Produces(pattern, s)}
            /\ (~HasStar(pattern) => matchedSet = {s \in Candidates : s = pattern}))

(***************************************************************************)
(* Properties of the filter arguments.                                     *)
(***************************************************************************)
\* A listed value matches the finding's attribute: a '*' pattern for
\* file_path, checker_name and checker_msg, membership for the set-valued
\* attributes, equality otherwise.
ValueAccepts(fld, v, f) ==
    IF fld \in {"file_path", "checker_name", "checker_msg"}
    THEN Produces(Text(v), Text(f[fld]))
    ELSE IF fld \in {"tag", "component"} THEN v \in f[fld]
    ELSE v = f[fld]

\* C6: the criteria select exactly the findings that, for every field
\* present, match at least one of the field's values or patterns; a criteria
\* with no field present selects every finding.
C6_AndAcrossOrWithin ==
    fpc = "listed" =>
        /\ listed = {f \in FilterFindings :
                        \A fld \in DOMAIN fargs :
                            \E v \in fargs[fld] : ValueAccepts(fld, v, f)}
        /\ (DOMAIN fargs = {} => listed = FilterFindings)

C6_Witness ==
    /\ fpc = "listed"
    /\ fcmd = "results"
    /\ "checker_msg" \in DOMAIN fargs
    /\ fargs["checker_msg"] = {"*", "."}
    /\ Cardinality(DOMAIN fargs) = 3
    /\ listed # {}
    /\ listed # FilterFindings
    /\ \E f \in listed : f.checker_msg = "a"

C6_WitnessAllAbsent ==
    fpc = "listed" /\ DOMAIN fargs = {} /\ listed = FilterFindings

StatusFields == {"review_status", "detection_status"}

\* C7: for results, diff and sum alike, a status field the command line does
\* not name carries its default in the Namespace and a named one carries the
\* values given; an unfiltered results request lists only findings whose
\* detection_status is new or unresolved.
C7_DefaultsForEveryCommand ==
    /\ fpc # "argv" =>
          \A fld \in StatusFields :
              /\ fld \in DOMAIN fargs
              /\ fargs[fld] = IF fld \in DOMAIN fargv THEN fargv[fld]
                              ELSE DEFAULT_FILTER_VALUES[fld]
    /\ (fpc = "listed" /\ fcmd = "results" /\ DOMAIN fargv = {}) =>
          /\ \A f \in listed : f.detection_status \in {"new", "unresolved"}
          /\ \E f \in listed : f.detection_status = "new"

\* C8: a filter option given with no value leaves its field in the criteria
\* with an empty value set: the criteria select no finding, hence none that
\* the same criteria with the field set to a value would reject.
C8_EmptyValueListMatchesNothing ==
    \A fld \in DOMAIN fargv :
        (fpc # "argv" /\ fargv[fld] = {}) =>
            /\ fld \in DOMAIN fargs
            /\ fargs[fld] = {}
            /\ (fpc = "listed" =>
                    /\ listed = {}
                    /\ \A v \in CriteriaValues(fld) :
                          listed \subseteq
                            {f \in FilterFindings :
                                Matches([fargs EXCEPT ![fld] = {v}], f)})

C8_Witness ==
    /\ fpc = "listed"
    /\ fcmd = "sum"
    /\ DOMAIN fargv = {"severity"}
    /\ fargv["severity"] = {}
    /\ listed = {}

(***************************************************************************)
(* Properties of run name expressions.                                     *)
(***************************************************************************)
\* The pieces of e between two ':' (or an end of e) that hold no ':'.
PatternsOf(e) ==
    {SubSeq(e, ij[1], ij[2]) : ij \in
        {ij \in (1..(Len(e) + 1)) \X (0..Len(e)) :
            /\ ij[1] <= ij[2] + 1
            /\ (ij[1] = 1 \/ e[ij[1] - 1] = ":")
            /\ (ij[2] = Len(e) \/ e[ij[2] + 1] = ":")
            /\ \A k \in ij[1]..ij[2] : e[k] # ":"}}

\* Some pattern of e produces the name.
Wanted(e, name) == \E p \in PatternsOf(e) : Produces(p, name)

RECURSIVE JoinWith(_, _)
JoinWith(ps, sep) ==
    IF Len(ps) = 1 THEN ps[1]
    ELSE ps[1] \o <<sep>> \o JoinWith(Tail(ps), sep)

RECURSIVE Reverse(_)
Reverse(q) == IF q = <<>> THEN <<>> ELSE Append(Reverse(Tail(q)), Head(q))

\* The expression with its patterns in the opposite order.
PatternsReversed(e) == JoinWith(Reverse(RawPatterns(e)), ":")

Str_run_1_a == <<"r", "u", "n", "_", "1", "_", "a">>

Str_run_2_b == <<"r", "u", "n", "_", "2", "_", "b">>

Str_run_2_c == <<"r", "u", "n", "_", "2", "_", "c">>

Str_run_3_d == <<"r", "u", "n", "_", "3", "_", "d">>

Str_run_2_star_run_3_d ==
    <<"r", "u", "n", "_", "2", "*", ":", "r", "u", "n", "_", "3", "_", "d">>

RunResolved == rpc \in {"resolved", "queried"}

\* C11: a resolved expression yields exactly the known run names that some
\* ':'-separated pattern of it matches, each once, in the order of the
\* known run names, and the same names when the patterns are given in the
\* opposite order; with run_1_a, run_2_b, run_2_c, run_3_d known,
\* "run_2*:run_3_d" yields run_2_b, run_2_c, run_3_d.
C11_ResolveSelectsMatchedInKnownOrder ==
    /\ RunResolved =>
        /\ resolved = SelectSeq(known, LAMBDA name : Wanted(expr, name))
        /\ Resolve(PatternsReversed(expr), known) = resolved
    /\ Resolve(Str_run_2_star_run_3_d,
               <<Str_run_1_a, Str_run_2_b, Str_run_2_c, Str_run_3_d>>)
         = <<Str_run_2_b, Str_run_2_c, Str_run_3_d>>

\* Two patterns select one name each, given against the server's order.
C11_Witness ==
    /\ RunResolved
    /\ Len(RawPatterns(expr)) = 2
    /\ Len(resolved) = 2
    /\ RawPatterns(expr)[1] = known[2]
    /\ RawPatterns(expr)[2] = known[1]
    /\ resolved = known

\* C12: resolving an expression fails with NoMatchingRunError exactly when
\* no known run name is matched by any of its patterns, an empty list of
\* known run names included; a resolution that succeeds is never empty, and
\* only a resolution that succeeded is queried.
C12_NoMatchIsAnError ==
    /\ rpc \in {"no_match", "resolved", "queried"} =>
        (rpc = "no_match" <=> \A i \in 1..Len(known) : ~Wanted(expr, known[i]))
    /\ RunResolved => resolved # <<>>
    /\ rpc = "no_match" => resolved = <<>>

\* A '*' pattern that none of the known run names matches.
C12_Witness ==
    /\ rpc = "no_match"
    /\ known # <<>>
    /\ HasStar(expr)

\* No run is known at all.
C12_WitnessEmptyCatalog ==
    /\ rpc = "no_match"
    /\ known = <<>>
    /\ expr # <<>>

(***************************************************************************)
(* Properties of valid_time.                                               *)
(***************************************************************************)
\* The argument with explicit zeros for the components it leaves out.
Completed(t) == t \o [i \in 1..(6 - Len(t)) |-> IntPart(0)]

\* Every component is an integer that fits its field: a year, a month, a
\* day of that month, and as far as given an hour, a minute and a second.
WellFormed(t) ==
    /\ Len(t) \in 3..6
    /\ \A i \in 1..Len(t) : t[i].kind = "int"
    /\ t[1].val \in 1..9999
    /\ t[2].val \in 1..12
    /\ t[3].val \in 1..DaysInMonth(t[1].val, t[2].val)
    /\ Len(t) >= 4 => t[4].val \in 0..23
    /\ Len(t) >= 5 => t[5].val \in 0..59
    /\ Len(t) >= 6 => t[6].val \in 0..59

\* C16: an argument with fewer than six components is read as the argument
\* with 0 for each missing trailing component: year:month:day is midnight
\* of that day, year:month:day:hour has minute 0 and second 0, and six
\* components give a datetime of exactly those fields.
C16_MissingComponentsAreZero ==
    tpc = "called" =>
        /\ Len(tinput) < 6 => tresult = ValidTime(Completed(tinput))
        /\ WellFormed(tinput) =>
            /\ tresult.outcome = "datetime"
            /\ \A i \in 1..6 :
                tresult.fields[i] = IF i <= Len(tinput) THEN tinput[i].val ELSE 0

\* A date without a time of day.
C16_Witness ==
    /\ tpc = "called"
    /\ Len(tinput) = 3
    /\ tresult.outcome = "datetime"
    /\ tresult.fields = <<2, 2, 2, 0, 0, 0>>

\* C17: an argument that is not three to six integers within the ranges of
\* year, month, day of the month, hour, minute and second is rejected with
\* an argument error, and no datetime is returned.
C17_IllFormedIsArgumentError ==
    (tpc = "called" /\ ~WellFormed(tinput)) =>
        tresult.outcome = "ArgumentTypeError"

\* The rejection holds as long as every integer fits a C int.
IllFormedWithinCIntIsArgumentError ==
    (tpc = "called" /\ ~WellFormed(tinput)
        /\ \A i \in 1..Len(tinput) : tinput[i].kind # "long") =>
        tresult.outcome = "ArgumentTypeError"

(***************************************************************************)
(* Properties of 'del'.                                                    *)
(***************************************************************************)
\* The handler of del has been called.
DeleteHandled == xpc \in {"selected", "unknown_run"}

\* The command line gave this option and no other.
GivenVariantIs(opt) == xargv.seen = {opt}

\* C13: the request the handler of del is called with carries exactly one
\* of the five variants (names, all before a run, all after a run, all
\* after a time, all before a time), the one the command line gave; a
\* command line that gives none or more than one ends in the parser, and
\* the handler is not called.
C13_ExactlyOneVariant ==
    /\ (xpc = "parsed" \/ DeleteHandled) =>
        /\ Cardinality(DOMAIN xargs) = 1
        /\ DOMAIN xargs \subseteq VariantDests
        /\ \E o \in DeleteOptions : GivenVariantIs(o) /\ DOMAIN xargs = {VariantDest(o)}
    /\ (xpc # "argv" /\ Cardinality(xargv.seen) # 1) =>
        /\ xargs = EmptyNamespace
        /\ \/ xpc = "rejected"
           \/ xpc = "crashed" /\ TimeArgFails(xargv, "OverflowError")

\* A request with one variant has reached the handler.
C13_Witness ==
    /\ xpc = "selected"
    /\ GivenVariantIs("--all-after-time")
    /\ selected # {}

\* A command line with two variants has been rejected.
C13_WitnessConflict ==
    /\ xpc = "rejected"
    /\ xargv.seen = {"-n", "--all-before-run"}
    /\ xerr = "not allowed with argument"

\* The runs r1, r2, r3 stored at 10, 20, 30.
ExampleCatalog ==
    [r \in {"r1", "r2", "r3"} |->
        IF r = "r1" THEN 10 ELSE IF r = "r2" THEN 20 ELSE 30]

\* The selection is the runs of the server on the given side of the instant.
SelectedAreBefore(instant) ==
    \A r \in DOMAIN catalog : r \in selected <=> catalog[r] < instant

SelectedAreAfter(instant) ==
    \A r \in DOMAIN catalog : r \in selected <=> catalog[r] > instant

\* C14: the before and after variants select the runs of the server stored
\* strictly earlier, or strictly later, than the reference instant, the
\* store timestamp of the named run or the given time: the named run and
\* every run stored at exactly the reference instant are not selected.
\* With r1, r2, r3 stored at 10, 20, 30, all-before-run=r3 selects r1, r2.
C14_BeforeAfterAreStrict ==
    xpc = "selected" =>
        /\ selected \subseteq DOMAIN catalog
        /\ GivenVariantIs("--all-before-run") =>
            /\ SelectedAreBefore(catalog[xargv.run])
            /\ xargv.run \notin selected
        /\ GivenVariantIs("--all-after-run") =>
            /\ SelectedAreAfter(catalog[xargv.run])
            /\ xargv.run \notin selected
        /\ GivenVariantIs("--all-before-time") => SelectedAreBefore(xargv.time.at)
        /\ GivenVariantIs("--all-after-time") => SelectedAreAfter(xargv.time.at)
        /\ (xargv.seen \cap RunOptions # {}) =>
            \A r \in selected : catalog[r] # catalog[xargv.run]
        /\ (xargv.seen \cap TimeOptions # {}) =>
            \A r \in selected : catalog[r] # xargv.time.at
        /\ (catalog = ExampleCatalog /\ GivenVariantIs("--all-before-run")
                /\ xargv.run = "r3") => selected = {"r1", "r2"}

\* The runs before r3 of the example.
C14_Witness ==
    /\ xpc = "selected"
    /\ catalog = ExampleCatalog
    /\ GivenVariantIs("--all-before-run")
    /\ xargv.run = "r3"
    /\ selected = {"r1", "r2"}

\* A run stored at exactly the given time stays.
C14_WitnessEqualInstant ==
    /\ xpc = "selected"
    /\ GivenVariantIs("--all-after-time")
    /\ \E r \in DOMAIN catalog : catalog[r] = xargv.time.at
    /\ selected # {}

\* C15: the name variant selects exactly the given names when every one of
\* them is the name of a run of the server, and otherwise fails with
\* UnknownRunError and selects nothing; a given name is a full name, a '*'
\* in it matches nothing.
C15_NamesAreLiteral ==
    (DeleteHandled /\ GivenVariantIs("-n")) =>
        IF xargv.names \subseteq DOMAIN catalog
        THEN xpc = "selected" /\ selected = xargv.names
        ELSE xpc = "unknown_run" /\ xerr = "UnknownRunError" /\ selected = {}

\* Two existing runs named.
C15_Witness ==
    /\ xpc = "selected"
    /\ GivenVariantIs("-n")
    /\ Cardinality(selected) = 2
    /\ Cardinality(DOMAIN catalog) = 3

\* A name with a '*' names no run, though runs exist it would match as a
\* pattern.
C15_WitnessStarName ==
    /\ xpc = "unknown_run"
    /\ xargv.names = {"r*"}
    /\ DOMAIN catalog = DelNames

(***************************************************************************)
(* Properties of the endpoints of a diff.                                  *)
(***************************************************************************)
\* The detection statuses the request asks for: those after
\* --detection-status, or new, reopened and unresolved when it is not given.
AskedStatuses ==
    IF "detection_status" \in DOMAIN qreq.argv
    THEN qreq.argv["detection_status"]
    ELSE {"new", "reopened", "unresolved"}

\* The finding passes the criteria of the request.
Passes(f) ==
    /\ f.detection_status \in AskedStatuses
    /\ f.review_status \in {"unreviewed", "confirmed"}

\* The hash is present in the run, as far as the criteria let it through.
PresentIn(r, h) == \E f \in store[r] : f.report_hash = h /\ Passes(f)

\* C18: when an endpoint resolves to several runs its finding set is the
\* findings of all the matched runs together, formed before the
\* classification: a hash present in any matched base run is not reported
\* as new, and a hash present in any matched new run is not reported as
\* resolved.
C18_EndpointIsUnionOfRuns ==
    /\ qpc \in {"fetched", "done"} =>
        /\ \A f \in StoredFinding :
            f \in qbase <=> (Passes(f) /\ \E r \in qreq.base : f \in store[r])
        /\ \A f \in StoredFinding :
            f \in qnew <=> (Passes(f) /\ \E r \in qreq.new : f \in store[r])
    /\ qpc = "done" =>
        /\ qreq.mode = "new" =>
            \A f \in qresult : \A r \in qreq.base : ~PresentIn(r, f.report_hash)
        /\ qreq.mode = "resolved" =>
            \A f \in qresult : \A r \in qreq.new : ~PresentIn(r, f.report_hash)

\* The base endpoint is two runs, only one of which has the hash that the
\* new endpoint has too: the hash is not new.
C18_Witness ==
    /\ qpc = "done"
    /\ qreq.mode = "new"
    /\ Cardinality(qreq.base) = 2
    /\ qreq.base \cap qreq.new = {}
    /\ \E r1, r2 \in qreq.base : \E f \in qnew :
        /\ PresentIn(r1, f.report_hash)
        /\ ~PresentIn(r2, f.report_hash)
        /\ f \notin qresult

\* All the findings of the matched runs of an endpoint.
AllOf(runs) == UNION {store[r] : r \in runs}

\* C19: with filter criteria the diff is the classification of the filtered
\* endpoint sets, diff(filter(base), filter(new), mode).
C19_FilterBeforeClassification ==
    qpc = "done" =>
        qresult = Diff({f \in AllOf(qreq.base) : Passes(f)},
                       {f \in AllOf(qreq.new) : Passes(f)}, qreq.mode)

\* ... which is not filter(diff(base, new, mode)): a finding the criteria
\* keep out of the base endpoint is reported as new.
C19_Witness ==
    /\ qpc = "done"
    /\ qreq.mode = "new"
    /\ qresult # {}
    /\ qresult # {f \in Diff(AllOf(qreq.base), AllOf(qreq.new), qreq.mode) : Passes(f)}

(***************************************************************************)
(* Properties of 'products add'.                                           *)
(***************************************************************************)
\* __handle has run.
AddHandled == "__handle" \in acalls

\* __handle ended with its parser error.
RejectedByHandle ==
    /\ apc = "rejected"
    /\ aerr.kind = "not allowed without argument --postgresql"

\* C20: __handle rejects the request with a parser error that names the
\* offending option, and does not call handle_add_product, exactly when
\* some option string of the PostgreSQL arguments (of dbaddress, dbport,
\* dbusername, dbpassword, dbname) is given on the command line and
\* --postgresql is not; a command line that gives none of them is not
\* rejected by __handle, whatever its other values are.
C20_PgOptionNeedsPostgresql ==
    AddHandled =>
        /\ RejectedByHandle <=> (aargv.pg # {} /\ ~aargv.postgresql)
        /\ RejectedByHandle =>
            /\ aerr.option \in aargv.pg
            /\ "handle_add_product" \notin acalls
        /\ ~RejectedByHandle => (apc = "added" /\ "handle_add_product" \in acalls)

\* What __handle does do: it rejects exactly when --postgresql is not
\* given and a word of the command line starts one of the eight option
\* strings it looks for.
PgCheckAsCoded ==
    AddHandled =>
        (RejectedByHandle <=>
            /\ ~aargv.postgresql
            /\ \/ aargv.description = "-"
               \/ /\ ~aargv.attached
                  /\ \E o \in aargv.pg : PgDest(o) # "dbpassword")

\* --dbpassword without --postgresql is let through.
PasswordLetThrough ==
    /\ apc = "added"
    /\ aargv.pg = {"--dbpassword"}
    /\ ~aargv.postgresql
    /\ aargv.description = "none"

(***************************************************************************)
(* Properties of one invocation: validation comes before the client.       *)
(***************************************************************************)
\* The request was rejected: by parse_args (conflicting options, a missing
\* comparison mode, an invalid timestamp) or by the parser.error of a custom
\* handler (html without export directory, PostgreSQL option without
\* --postgresql).
Rejected == dpc = "rejected" \/ xpc = "rejected" \/ apc = "rejected"

\* ... or it ended in parse_args with an exception argparse does not catch.
Stopped == Rejected \/ xpc = "crashed"

\* The message of the rejection.
Reported ==
    /\ dpc = "rejected" => derr # "none"
    /\ xpc = "rejected" => xerr # "none"
    /\ apc = "rejected" => aerr.kind # "none"

\* A handler of cmd_line_client or product_client was called, or has gone
\* on to talk to the server.
ClientCalled ==
    \/ "handle_diff_results" \in dcalls
    \/ dpc \in {"fetching", "done"}
    \/ DeleteHandled
    \/ "handle_add_product" \in acalls
    \/ apc = "added"

\* C21: a validation failure is reported before any call into the client
\* modules: a step that rejects the request leaves an error message and no
\* call of a handler of cmd_line_client or product_client behind it, and
\* once the request is rejected it stays rejected, so no handler is called
\* for it later either.
C21_RejectedBeforeClientCall ==
    [][/\ Stopped' => (Reported' /\ ~ClientCalled')
       /\ Stopped => Stopped']_vars

\* The custom handler of diff has run and has rejected html output without
\* an export directory.
C21_Witness ==
    /\ dpc = "rejected"
    /\ "__handle" \in dcalls
    /\ derr = "--output html: not allowed without --export-dir"

\* The other rejections: by the handler of products add, by the mutually
\* exclusive groups of diff and del, by valid_time.
C21_WitnessAdd == apc = "rejected" /\ "__handle" \in acalls

C21_WitnessModes == dpc = "rejected" /\ derr = "not allowed with argument"

C21_WitnessNoMode == dpc = "rejected" /\ derr = "one of the arguments is required"

C21_WitnessTime == xpc = "rejected" /\ xerr = "invalid valid_time value"

(***************************************************************************)
(* Properties of the deprecated --filter string.                           *)
(***************************************************************************)
\* The dest of --severity, --checker-name, --file, --detection-status and
\* --review-status.
SeparateOptionDests ==
    <<"severity", "checker_name", "file_path", "detection_status", "review_status">>

Separators == {":", ","}

\* The number of ':' before position k of the string.
ColonsBefore(str, k) == Cardinality({j \in 1..(k - 1) : str[j] = ":"})

\* Segment i of the string is blank: nothing stands between the ':' (or
\* the end of the string) on its two sides.
SegmentBlank(str, i) ==
    \E k \in 1..(Len(str) + 1) :
        /\ ColonsBefore(str, k) = i - 1
        /\ (k = 1 \/ str[k - 1] = ":")
        /\ (k = Len(str) + 1 \/ str[k] = ":")

\* The comma-separated values of segment i: the pieces of the string that
\* lie in the segment, hold no separator and have one on either side.
ValuesOfSegment(str, i) ==
    {Joined(SubSeq(str, ab[1], ab[2])) : ab \in
        {ab \in (1..(Len(str) + 1)) \X (0..Len(str)) :
            /\ ab[1] <= ab[2] + 1
            /\ ColonsBefore(str, ab[1]) = i - 1
            /\ (ab[1] = 1 \/ str[ab[1] - 1] \in Separators)
            /\ (ab[2] = Len(str) \/ str[ab[2] + 1] \in Separators)
            /\ \A k \in ab[1]..ab[2] : str[k] \notin Separators}}

\* The command line that gives the values of each segment that is not
\* blank through the separate option.
AsSeparateOptions(str) ==
    LET given == {i \in 1..Len(SeparateOptionDests) : ~SegmentBlank(str, i)}
    IN  [fld \in {SeparateOptionDests[i] : i \in given} |->
            ValuesOfSegment(str, CHOOSE i \in given : SeparateOptionDests[i] = fld)]

\* C22: the criteria made of a --filter string
\* SEVERITIES:CHECKER_NAMES:FILE_PATHS:DETECTION_STATUSES:REVIEW_STATUSES
\* is the criteria of the command line that gives the comma-separated
\* values of each segment through --severity, --checker-name, --file,
\* --detection-status and --review-status; a blank segment leaves its field
\* as a command line without the option leaves it (not in the criteria, or
\* at the command's default), and never with an empty value set.
C22_FilterStringAsSeparateOptions ==
    lpc = "criteria" =>
        /\ lcriteria = FilterNamespace(lcmd, AsSeparateOptions(lfilter))
        /\ \A i \in 1..Len(SeparateOptionDests) :
              LET fld == SeparateOptionDests[i]
                  notGiven == FilterNamespace(lcmd, NoValues)
              IN  SegmentBlank(lfilter, i) =>
                      /\ fld \in DOMAIN lcriteria <=> fld \in DOMAIN notGiven
                      /\ fld \in DOMAIN lcriteria =>
                            (lcriteria[fld] = notGiven[fld] /\ lcriteria[fld] # {})

\* "a,b::::" for results: two severities, the other segments blank.
C22_Witness ==
    /\ lpc = "criteria"
    /\ lcmd = "results"
    /\ lfilter = <<"a", ",", "b", ":", ":", ":", ":">>
    /\ lcriteria = [severity |-> {"a", "b"},
                    detection_status |-> {"new", "reopened", "unresolved"},
                    review_status |-> {"unreviewed", "confirmed"}]

\* "::::" for sum: every field absent.
C22_WitnessAllBlank ==
    /\ lpc = "criteria"
    /\ lcmd = "sum"
    /\ lfilter = <<":", ":", ":", ":">>
    /\ lcriteria = NoValues

(***************************************************************************)
(* Properties of the two fetches of a diff.                                *)
(***************************************************************************)
\* The two orders the fetches can complete in.
CompletionOrders == {<<"base", "new">>, <<"new", "base">>}

\* C23: whichever of the two fetches completes first, the classification
\* starts only when both have completed, its result is the diff of the two
\* fetched sets in either order of completion, and as long as one of the
\* sets is not fetched there is no result.
C23_ClassifyAfterBothFetches ==
    /\ dpc = "done" =>
          /\ baseDone /\ newDone
          /\ fetched \in CompletionOrders
          /\ \A order \in CompletionOrders :
                fetched = order => result = Diff(base, new, DiffMode(dargs))
    /\ ~(baseDone /\ newDone) => (dpc # "done" /\ result = {})
    /\ baseDone <=> (\E i \in 1..Len(fetched) : fetched[i] = "base")
    /\ newDone <=> (\E i \in 1..Len(fetched) : fetched[i] = "new")

\* The new endpoint was fetched first, and the diff reports the findings
\* that are new in it.
C23_Witness ==
    /\ dpc = "done"
    /\ fetched = <<"new", "base">>
    /\ "new" \in DOMAIN dargs
    /\ result # {}
    /\ base # {}
    /\ result # Diff(new, base, "new")

\* The same with the base endpoint fetched first; one fetch completed and
\* the other not.
C23_WitnessBaseFirst ==
    /\ dpc = "done"
    /\ fetched = <<"base", "new">>
    /\ "new" \in DOMAIN dargs
    /\ result # {}

C23_WitnessOneFetched == dpc = "fetching" /\ newDone /\ ~baseDone /\ new # {}

(***************************************************************************)
(* Properties of the arguments 'products add' hands to the client.         *)
(***************************************************************************)
\* The option of the attribute was given on the command line.
AddGiven(d) ==
    IF d = "sqlite" THEN aargv.sqlite # "none"
    ELSE \E o \in aargv.pg : PgDest(o) = d

\* The attributes with a placeholder default, and what is derived from the
\* endpoint for each.
PlaceholderOf(d) ==
    IF d = "sqlite" THEN "<ENDPOINT>.sqlite" ELSE "<ENDPOINT>"

DerivedFromEndpoint(d) ==
    IF d = "sqlite" THEN aargs["endpoint"] \o ".sqlite" ELSE aargs["endpoint"]

C24_WitnessSqlite ==
    /\ apc = "added"
    /\ ~aargv.postgresql
    /\ aargv.sqlite = "none"
    /\ aargs["sqlite"] = "ep.sqlite"
    /\ DOMAIN aargs \cap PgDests = {}

\* The placeholder written out as the value of --dbname is replaced like
\* the default; as the value of --dbaddress it is the address the user
\* gave.
C24_WitnessPlaceholderGiven ==
    /\ apc = "added"
    /\ aargv.postgresql
    /\ aargv.pg = {"--dbname", "--dbaddress"}
    /\ aargv.value = "<ENDPOINT>"
    /\ aargs["dbname"] = "ep"
    /\ aargs["dbaddress"] = "<ENDPOINT>"

(***************************************************************************)
(* Properties of the html check of diff's __handle.                        *)
(***************************************************************************)
\* __handle of diff has run.
DiffHandled == "__handle" \in dcalls

\* The output format is html and neither -e nor --export-dir was given.
HtmlWithoutExportDir == dargv.output = "html" /\ dargv.export = "none"

\* C25: __handle calls handle_diff_results if and only if it is not the case
\* that the output format is html while neither -e nor --export-dir was
\* given on the command line: html without an export directory ends with
\* the parser error and the diff is not started, every other output format
\* goes on to the diff whatever the export directory is.
C25_DiffUnlessHtmlWithoutExportDir ==
    DiffHandled =>
        /\ "handle_diff_results" \in dcalls <=> ~HtmlWithoutExportDir
        /\ HtmlWithoutExportDir =>
              /\ dpc = "rejected"
              /\ derr = "--output html: not allowed without --export-dir"
              /\ ~baseDone /\ ~newDone /\ result = {}
        /\ dargv.output # "html" => "handle_diff_results" \in dcalls

\* What __handle does: '-o html --export-dir=DIR' has export_dir in the
\* Namespace and is rejected for want of --export-dir.
ExportDirGivenAndRejected ==
    /\ dpc = "rejected"
    /\ DiffHandled
    /\ dargv.output = "html"
    /\ dargv.export = "attached"
    /\ "export_dir" \in DOMAIN dargs
    /\ derr = "--output html: not allowed without --export-dir"

\* ... and '-b - -o html' without an export directory goes on to the diff.
HtmlWithoutExportDirLetThrough ==
    /\ "handle_diff_results" \in dcalls
    /\ HtmlWithoutExportDir
    /\ dargs["basename"] = "-"

\* Where the export directory is written as words of their own, and no
\* value is the word "-", the check is the one the claim states.
C25_HoldsForSeparateWords ==
    (DiffHandled /\ dargv.export # "attached" /\ dargv.basename # "-") =>
        ("handle_diff_results" \in dcalls <=> ~HtmlWithoutExportDir)

====
